---- MODULE Spec2Model ----
(***************************************************************************)
(* march.py: launcher that replaces the process with a machine-optimised   *)
(* variant of a program when one exists.  Strings are sequences of one-    *)
(* character strings, so that the path algebra of run() and the token scan *)
(* of main() are computed character by character as the code does.         *)
(***************************************************************************)
EXTENDS Integers, Sequences, FiniteSets, TLC

\* ------------------------------------------------------------------ bounds
\* environment changes (a file created, removed, chmod'ed) during one run()
MaxFsChanges == 1
\* options in front of the program name
MaxOpts == 2
\* arguments after the program name
MaxExtraArgs == 1

\* --------------------------------------------------------------- constants
ExecFailed == 127
SigQuit == 3
MarchPrefixLen == 6
WARNING == 30
ERROR == 40
INFO == 20
LevelStep == 10

\* Python's None; no character sequence equals it
None == <<"None">>

Truthy(x) == x # None /\ x # <<>>

\* ------------------------------------------------------- string primitives
RECURSIVE RFind(_, _, _)
\* str.rfind(ch) + 1 over s[1..n]: index of the last ch, 0 when there is none
RFind(s, ch, n) ==
    IF n = 0 THEN 0
    ELSE IF s[n] = ch THEN n ELSE RFind(s, ch, n - 1)

RECURSIVE RStrip(_, _)
\* str.rstrip(ch)
RStrip(s, ch) ==
    IF s # <<>> /\ s[Len(s)] = ch THEN RStrip(SubSeq(s, 1, Len(s) - 1), ch)
    ELSE s

AllChar(s, ch) == \A i \in 1..Len(s) : s[i] = ch

StartsWith(s, pre) ==
    /\ Len(s) >= Len(pre)
    /\ SubSeq(s, 1, Len(pre)) = pre

RECURSIVE SplitOn(_, _)
\* str.split(sep) for a one-character separator: empty fields are kept
SplitOn(s, sep) ==
    IF \A i \in 1..Len(s) : s[i] # sep THEN <<s>>
    ELSE LET i == CHOOSE k \in 1..Len(s) :
                      s[k] = sep /\ \A j \in 1..(k - 1) : s[j] # sep
         IN  <<SubSeq(s, 1, i - 1)>> \o SplitOn(SubSeq(s, i + 1, Len(s)), sep)

Whitespace == {" ", "\t", "\n"}

\* str.split() without argument: fields between runs of whitespace, none empty
SplitWS(s) ==
    LET blank == [i \in 1..Len(s) |-> IF s[i] \in Whitespace THEN " " ELSE s[i]]
    IN  SelectSeq(SplitOn(blank, " "), LAMBDA f : f # <<>>)

RECURSIVE JoinWith(_, _)
\* sep.join(parts)
JoinWith(parts, sep) ==
    IF parts = <<>> THEN <<>>
    ELSE IF Len(parts) = 1 THEN parts[1]
    ELSE parts[1] \o <<sep>> \o JoinWith(Tail(parts), sep)

\* ------------------------------------------------------------ os.path (posix)
\* os.path.split: (head, tail), tail has no slash, head loses trailing slashes
\* unless it is all slashes
Split(p) ==
    LET i    == RFind(p, "/", Len(p))
        head == SubSeq(p, 1, i)
        tail == SubSeq(p, i + 1, Len(p))
    IN  <<IF head # <<>> /\ ~AllChar(head, "/") THEN RStrip(head, "/") ELSE head,
          tail>>

\* os.path.dirname
Dirname(p) == Split(p)[1]

\* os.path.join of two components
Join(a, b) ==
    IF StartsWith(b, <<"/">>) THEN b
    ELSE IF a = <<>> \/ a[Len(a)] = "/" THEN a \o b
    ELSE a \o <<"/">> \o b

RECURSIVE NormComps(_, _, _)
\* the component loop of os.path.normpath
NormComps(comps, new, rooted) ==
    IF comps = <<>> THEN new
    ELSE LET c == Head(comps) IN
         IF c = <<>> \/ c = <<".">> THEN NormComps(Tail(comps), new, rooted)
         ELSE IF \/ c # <<".", ".">>
                 \/ (~rooted /\ new = <<>>)
                 \/ (new # <<>> /\ new[Len(new)] = <<".", ".">>)
              THEN NormComps(Tail(comps), Append(new, c), rooted)
         ELSE IF new # <<>>
              THEN NormComps(Tail(comps), SubSeq(new, 1, Len(new) - 1), rooted)
         ELSE NormComps(Tail(comps), new, rooted)

\* os.path.normpath
NormPath(p) ==
    IF p = <<>> THEN <<".">>
    ELSE LET slashes == IF ~StartsWith(p, <<"/">>) THEN 0
                        ELSE IF StartsWith(p, <<"/", "/">>)
                                /\ ~StartsWith(p, <<"/", "/", "/">>) THEN 2
                        ELSE 1
             body == JoinWith(NormComps(SplitOn(p, "/"), <<>>, slashes > 0), "/")
             full == [i \in 1..slashes |-> "/"] \o body
         IN  IF full = <<>> THEN <<".">> ELSE full

\* the working directory of the process
Cwd == <<"/", "b">>

\* os.path.abspath
AbsPath(p) == NormPath(IF StartsWith(p, <<"/">>) THEN p ELSE Join(Cwd, p))

\* ------------------------------------------------------------ environment
P_b_p == <<"/", "b", "/", "p">>
P_p == <<"/", "p">>
P_b_v3_p == <<"/", "b", "-", "v", "3", "/", "p">>

\* the files whose presence and mode the environment may vary
Files == {P_b_p, P_p, P_b_v3_p}

\* directories that exist throughout (searchable by the process)
Dirs == {<<"/">>, <<"/", "b">>, <<"/", "b", "-", "v", "3">>}

FileStatus == {"absent", "noexec", "exec"}

\* the file a path names for the kernel: components resolved from the root
Canon(p) ==
    LET full == IF StartsWith(p, <<"/">>) THEN p ELSE Join(Cwd, p)
    IN  <<"/">> \o JoinWith(NormComps(SplitOn(full, "/"), <<>>, TRUE), "/")

\* a path written with a trailing slash names a directory only
NamesDir(p) == p # <<>> /\ p[Len(p)] = "/"

\* os.path.exists(fn)
Exists(f, fn) ==
    /\ fn # <<>>
    /\ \/ Canon(fn) \in Dirs
       \/ Canon(fn) \in Files /\ f[Canon(fn)] # "absent" /\ ~NamesDir(fn)

\* os.access(fn, os.X_OK), and with os.F_OK | os.X_OK
Access(f, fn) ==
    /\ fn # <<>>
    /\ \/ Canon(fn) \in Dirs
       \/ Canon(fn) \in Files /\ f[Canon(fn)] = "exec" /\ ~NamesDir(fn)

\* _access_check(fn, mode)
AccessCheck(f, fn) == Exists(f, fn) /\ Access(f, fn)

\* the kernel can load the target of os.execv: a regular file with the x bit
Loadable(f, target) ==
    /\ target # <<>>
    /\ Canon(target) \in Files
    /\ f[Canon(target)] = "exec"
    /\ ~NamesDir(target)

\* os.confstr("CS_PATH"), used when PATH is not in the environment
DefPath == <<"/", "b">>

\* values of os.environ.get("PATH")
PathValues ==
    { None,
      <<>>,
      <<"/", ":", "/", "b">>,
      <<":", "/">> }

MarchEq == <<"m", "a", "r", "c", "h", "=">>
V2 == <<"v", "2">>
V3 == <<"v", "3">>

Unreadable == <<"IOError">>

\* contents of /proc/cmdline, or Unreadable when open() fails
CmdlineSources ==
    { Unreadable,
      <<"q", " ">> \o MarchEq \o V2 \o <<" ">> \o MarchEq \o V3 \o <<"\n">>,
      <<"x">> \o MarchEq \o V2 \o <<" ", " ">> \o MarchEq \o V3 \o <<" ", "q">>,
      <<"q", " ">> \o MarchEq \o <<" ">> \o MarchEq \o V3,
      <<"r", "o", " ", "q">> }

\* positional arguments left over by getopt
ExtraArgs == UNION {[1..n -> {<<"x">>}] : n \in 0..MaxExtraArgs}

ProgTokens == {<<"p">>, P_b_p, <<".", "/", "p">>, <<"q">>}

ArgVectors == {<<>>} \cup {<<t>> \o e : t \in ProgTokens, e \in ExtraArgs}

\* (opt, par) pairs as getopt returns them
Options ==
    { [opt |-> "-h", par |-> <<>>],
      [opt |-> "-V", par |-> <<>>],
      [opt |-> "-v", par |-> <<>>],
      [opt |-> "-m", par |-> V3],
      [opt |-> "-m", par |-> <<>>] }

OptLists == UNION {[1..n -> Options] : n \in 0..MaxOpts}

\* ------------------------------------------------------------------ state
VARIABLES
    pc,                 \* position: "main", "cmdline", "run", "which", "variant",
                        \* "exec"; terminal: "replaced", "returned", "exited", "uncaught"
    fs,                 \* status of each file of Files
    fsChanges,          \* environment changes so far
    PATH,               \* os.environ.get("PATH")
    proc_cmdline,       \* content of /proc/cmdline, or Unreadable
    gpar_march,         \* gpar.march
    gpar_kernel_march,  \* gpar.kernel_march
    log_level,          \* log._level
    logged,             \* the lines written by Log.log, as <<level, text>>
    cmdline,            \* main's local cmdline; None while unbound
    argv0,              \* the vector main() handed to run(); None before
    args,               \* run's args (the list is mutable)
    march,              \* run's local march
    prog,               \* run's local prog
    marchprog,          \* run's local marchprog; None while unbound
    variant,            \* outcome of the variant check: "none", "found", "missing"
    execs,              \* the os.execv calls made: <<target, vector>>
    ret,                \* run's local ret, then the status main() returns or exit() gives
    exc                 \* the exception that left main(); None when none did

vars == <<pc, fs, fsChanges, PATH, proc_cmdline, gpar_march, gpar_kernel_march,
          log_level, logged, cmdline, argv0, args, march, prog, marchprog,
          variant, execs, ret, exc>>

envVars == <<fs, fsChanges, PATH, proc_cmdline>>
runVars == <<argv0, args, march, prog, marchprog, variant, execs>>

\* ---------------------------------------------------------------- logging
LevelNames == {50, ERROR, WARNING, INFO, 10, 0}

\* Log.setLevel
SetLevel(cur, level) == IF level # 0 /\ level \in LevelNames THEN level ELSE cur

\* Log.log: the line is written when level >= self._level
Emit(lines, cur, level, text) ==
    IF level >= cur THEN Append(lines, <<level, text>>) ELSE lines

\* ------------------------------------------------------------------- which
RECURSIVE WhichLoop(_, _, _, _)
\* the for loop over the PATH directories, with the seen set
WhichLoop(dirs, seen, cmd, f) ==
    IF dirs = <<>> THEN None
    ELSE LET dir == Head(dirs) IN
         IF dir \notin seen
         THEN IF AccessCheck(f, Join(dir, cmd)) THEN Join(dir, cmd)
              ELSE WhichLoop(Tail(dirs), seen \cup {dir}, cmd, f)
         ELSE WhichLoop(Tail(dirs), seen, cmd, f)

\* mutant of which: the directory-part test is missing, PATH is always searched
whichAlwaysSearches(cmd, f, envpath) ==
    LET path == IF envpath = None THEN DefPath ELSE envpath IN
    IF path = <<>> THEN None
    ELSE WhichLoop(SplitOn(path, ":"), {}, cmd, f)

\* which(cmd) with the default mode, path taken from the environment
which(cmd, f, envpath) ==
    IF Dirname(cmd) # <<>>
    THEN IF AccessCheck(f, cmd) THEN cmd ELSE None
    ELSE LET path == IF envpath = None THEN DefPath ELSE envpath IN
         IF path = <<>> THEN None
         ELSE WhichLoop(SplitOn(path, ":"), {}, cmd, f)

\* ----------------------------------------------------------- march selector
\* mutant of EffectiveMarch: the operands of "or" swapped
EffectiveMarchKernelFirst(explicit, kernel) ==
    IF Truthy(kernel) THEN kernel ELSE explicit

\* gpar.march or gpar.kernel_march
EffectiveMarch(explicit, kernel) == IF Truthy(explicit) THEN explicit ELSE kernel

RECURSIVE ScanMarchNoBreak(_, _)
\* mutant of ScanMarch: the break is missing, so the last march= token wins
ScanMarchNoBreak(tokens, kernel) ==
    IF tokens = <<>> THEN kernel
    ELSE IF StartsWith(Head(tokens), MarchEq)
         THEN ScanMarchNoBreak(Tail(tokens),
                 SubSeq(Head(tokens), MarchPrefixLen + 1, Len(Head(tokens))))
         ELSE ScanMarchNoBreak(Tail(tokens), kernel)

RECURSIVE ScanMarch(_, _)
\* the loop over the /proc/cmdline tokens: first "march=" token, then break
ScanMarch(tokens, kernel) ==
    IF tokens = <<>> THEN kernel
    ELSE IF StartsWith(Head(tokens), MarchEq)
         THEN SubSeq(Head(tokens), MarchPrefixLen + 1, Len(Head(tokens)))
         ELSE ScanMarch(Tail(tokens), kernel)

\* mutant of MarchProg: the tag is put in front of the directory name
MarchProgPrefixed(p, m) ==
    LET pth       == Split(p)[1]
        exe       == Split(p)[2]
        basepath  == Split(pth)[1]
        toppath   == Split(pth)[2]
        marchpath == Join(basepath, m \o <<"-">> \o toppath)
    IN  Join(marchpath, exe)

\* the variant path of run(): two splits and two joins
MarchProg(p, m) ==
    LET pth       == Split(p)[1]
        exe       == Split(p)[2]
        basepath  == Split(pth)[1]
        toppath   == Split(pth)[2]
        marchpath == Join(basepath, toppath \o <<"-">> \o m)
    IN  Join(marchpath, exe)

\* os.path.exists(marchprog) and os.access(marchprog, os.X_OK)
VariantUsable(f, mp) == Exists(f, mp) /\ Access(f, mp)

RECURSIVE ProcessOpts(_, _)
\* the option loop of main(); exit() ends the process, so the loop stops there
ProcessOpts(optlist, st) ==
    IF optlist = <<>> \/ st.exited THEN st
    ELSE LET o == Head(optlist) IN
         ProcessOpts(Tail(optlist),
            CASE o.opt = "-h" -> [st EXCEPT !.exited = TRUE, !.status = 0]
              [] o.opt = "-V" -> [st EXCEPT !.exited = TRUE, !.status = 0]
              [] o.opt = "-v" ->
                    [st EXCEPT !.level = SetLevel(st.level, st.level - LevelStep)]
              [] o.opt = "-m" -> [st EXCEPT !.march = o.par])

\* mutant of Rewrite: the vector is rebuilt from the variant path alone
RewriteDropsRest(a, mp) == <<mp>>

\* args[0] = marchprog
Rewrite(a, mp) == [a EXCEPT ![1] = mp]

\* mutant of Execv: the resolved prog is the target, not args[0]
ExecvProg(a) == <<prog, a>>

\* os.execv(args[0], args): the target and the vector of the call
Execv(a) == <<a[1], a>>

\* a local name not assigned yet
Unbound == << <<"unbound">> >>

\* ------------------------------------------------------------------- Init
Init ==
    /\ pc = "main"
    /\ fs \in [Files -> FileStatus]
    /\ fsChanges = 0
    /\ PATH \in PathValues
    /\ proc_cmdline \in CmdlineSources
    /\ gpar_march = None
    /\ gpar_kernel_march = None
    /\ log_level = WARNING
    /\ logged = <<>>
    /\ cmdline = Unbound
    /\ argv0 = Unbound
    /\ args = Unbound
    /\ march = None
    /\ prog = None
    /\ marchprog = None
    /\ variant = "none"
    /\ execs = <<>>
    /\ ret = 0
    /\ exc = ""

\* ---------------------------------------------------------------- actions
\* main(), lines 229-247: getopt and the option loop
ParseOptions ==
    /\ pc = "main"
    /\ \E bad \in BOOLEAN, optlist \in OptLists, positional \in ArgVectors :
         IF bad
         THEN \* getopt.error: exit(1, msg, True)
              /\ pc' = "exited"
              /\ ret' = 1
              /\ UNCHANGED <<gpar_march, log_level, args>>
         ELSE LET st == ProcessOpts(optlist,
                           [exited |-> FALSE, status |-> 0,
                            level |-> log_level, march |-> gpar_march])
              IN  /\ gpar_march' = st.march
                  /\ log_level' = st.level
                  /\ IF st.exited
                     THEN pc' = "exited" /\ ret' = st.status /\ UNCHANGED args
                     ELSE pc' = "cmdline" /\ args' = positional /\ UNCHANGED ret
    /\ UNCHANGED <<envVars, gpar_kernel_march, logged, cmdline, argv0, march,
                   prog, marchprog, variant, execs, exc>>

\* main(), lines 249-257: read /proc/cmdline and scan it for march=
ReadCmdline ==
    /\ pc = "cmdline"
    /\ IF proc_cmdline = Unreadable
       THEN \* open() raised: logged; the loop then reads the unbound cmdline
            /\ logged' = Emit(logged, log_level, ERROR, "cmdline")
            /\ pc' = "uncaught"
            /\ exc' = "UnboundLocalError"
            /\ UNCHANGED <<cmdline, gpar_kernel_march>>
       ELSE /\ cmdline' = SplitWS(proc_cmdline)
            /\ gpar_kernel_march' = ScanMarch(cmdline', gpar_kernel_march)
            /\ pc' = "run"
            /\ UNCHANGED <<logged, exc>>
    /\ UNCHANGED <<envVars, gpar_march, log_level, runVars, ret>>

\* run(), lines 190-199: effective march, args[0], the direct check
RunStart ==
    /\ pc = "run"
    /\ argv0' = args
    /\ march' = EffectiveMarch(gpar_march, gpar_kernel_march)
    /\ ret' = ExecFailed
    /\ logged' = Emit(logged, log_level, INFO, "started")
    /\ IF args = <<>>
       THEN \* args[0] raises IndexError, which nothing catches
            /\ pc' = "uncaught"
            /\ exc' = "IndexError"
            /\ UNCHANGED prog
       ELSE /\ IF Access(fs, args[1])
               THEN prog' = AbsPath(args[1]) /\ pc' = "variant"
               ELSE prog' = args[1] /\ pc' = "which"
            /\ UNCHANGED exc
    /\ UNCHANGED <<envVars, gpar_march, gpar_kernel_march, log_level, cmdline,
                   args, marchprog, variant, execs>>

\* run(), line 200: prog = which(prog)
RunWhich ==
    /\ pc = "which"
    /\ prog' = which(prog, fs, PATH)
    /\ pc' = "variant"
    /\ UNCHANGED <<envVars, gpar_march, gpar_kernel_march, log_level, logged,
                   cmdline, argv0, args, march, marchprog, variant, execs, ret, exc>>

\* run(), lines 201-210 and 215-217: the variant lookup, or the log line
RunVariant ==
    /\ pc = "variant"
    /\ pc' = "exec"
    /\ IF Truthy(prog)
       THEN IF Truthy(march)
            THEN /\ marchprog' = MarchProg(prog, march)
                 /\ IF VariantUsable(fs, marchprog')
                    THEN args' = Rewrite(args, marchprog') /\ variant' = "found"
                    ELSE args' = args /\ variant' = "missing"
                 /\ UNCHANGED logged
            ELSE /\ logged' = Emit(logged, log_level, WARNING, "verbatim")
                 /\ UNCHANGED <<marchprog, args, variant>>
       ELSE /\ logged' = Emit(logged, log_level, ERROR, "cannot determine")
            /\ UNCHANGED <<marchprog, args, variant>>
    /\ UNCHANGED <<envVars, gpar_march, gpar_kernel_march, log_level, cmdline,
                   argv0, march, prog, execs, ret, exc>>

\* os.execv(args[0], args) replaces the process image
ExecReplaces ==
    /\ pc = "exec"
    /\ Loadable(fs, Execv(args)[1])
    /\ execs' = Append(execs, Execv(args))
    /\ pc' = "replaced"
    /\ UNCHANGED <<envVars, gpar_march, gpar_kernel_march, log_level, logged,
                   cmdline, argv0, args, march, prog, marchprog, variant, ret,
                   exc>>

\* mutant of ExecRaises: after a failed exec of the variant, the original
\* resolved path is tried
ExecRaisesRetries ==
    /\ pc = "exec"
    /\ execs' = Append(execs, Execv(args))
    /\ logged' = Emit(logged, log_level, ERROR, "execv")
    /\ IF variant = "found" /\ args[1] = marchprog
       THEN args' = [args EXCEPT ![1] = prog] /\ pc' = "exec"
       ELSE args' = args /\ pc' = "returned"
    /\ UNCHANGED <<envVars, gpar_march, gpar_kernel_march, log_level, cmdline,
                   argv0, march, prog, marchprog, variant, ret, exc>>

\* os.execv raised (no such file, no permission, not a loadable format):
\* logged, and run() returns ret
ExecRaises ==
    /\ pc = "exec"
    /\ execs' = Append(execs, Execv(args))
    /\ logged' = Emit(logged, log_level, ERROR, "execv")
    /\ pc' = "returned"
    /\ UNCHANGED <<envVars, gpar_march, gpar_kernel_march, log_level, cmdline,
                   argv0, args, march, prog, marchprog, variant, ret, exc>>

\* KeyboardInterrupt while run() executes: main() returns 3
Interrupt ==
    /\ pc \in {"run", "which", "variant", "exec"}
    /\ ret' = SigQuit
    /\ pc' = "returned"
    /\ UNCHANGED <<envVars, gpar_march, gpar_kernel_march, log_level, logged,
                   cmdline, runVars, exc>>

\* another process creates, removes or chmods a file while run() executes
FsChange ==
    /\ pc \in {"which", "variant", "exec"}
    /\ fsChanges < MaxFsChanges
    /\ \E f \in Files, s \in FileStatus :
         /\ s # fs[f]
         /\ fs' = [fs EXCEPT ![f] = s]
    /\ fsChanges' = fsChanges + 1
    /\ UNCHANGED <<pc, PATH, proc_cmdline, gpar_march, gpar_kernel_march,
                   log_level, logged, cmdline, runVars, ret, exc>>

Next ==
    \/ ParseOptions
    \/ ReadCmdline
    \/ RunStart
    \/ RunWhich
    \/ RunVariant
    \/ ExecReplaces
    \/ ExecRaises
    \/ Interrupt
    \/ FsChange

Spec == Init /\ [][Next]_vars

\* ================================================================ claims
RunEntered == argv0 # Unbound
ExecCalled == execs # <<>>
HasSep(tok) == \E i \in 1..Len(tok) : tok[i] = "/"
Logged(level, text) == \E i \in 1..Len(logged) : logged[i] = <<level, text>>

\* C1: when resolution succeeded, a march tag is present and the variant file
\* is missing or not executable, the path handed to os.execv is the resolved
\* original path.
C1_MissingVariantExecsResolved ==
    (ExecCalled /\ Truthy(prog) /\ Truthy(march) /\ variant = "missing")
        => /\ execs[1][1] = prog
           /\ execs[1][2][1] = prog

\* C2: every vector handed to os.execv has the length of the input vector and
\* equals it at every index but the first; when the variant was found, the
\* first element and the exec target are the variant path
\* (/b/p with v3 gives /b-v3/p).
C2_OnlyFirstElementRewritten ==
    \A i \in 1..Len(execs) :
        LET target == execs[i][1]
            vector == execs[i][2]
        IN  /\ Len(vector) = Len(argv0)
            /\ \A k \in 2..Len(vector) : vector[k] = argv0[k]
            /\ variant = "found" =>
                  /\ vector[1] = marchprog
                  /\ target = marchprog
                  /\ Access(fs, marchprog) \/ fsChanges > 0
                  /\ (prog = P_b_p /\ march = V3) => target = P_b_v3_p

C2_Witness ==
    /\ pc = "replaced"
    /\ variant = "found"
    /\ Len(argv0) > 1
    /\ prog = P_b_p
    /\ execs[1][2][1] # argv0[1]

\* C3: an unreadable /proc/cmdline is logged and not fatal: no exception
\* leaves main(), the discovered tag stays absent and main() goes on to run().
C3_UnreadableCmdlineNotFatal ==
    (proc_cmdline = Unreadable /\ pc \notin {"main", "cmdline", "exited"})
        => /\ exc = ""
           /\ gpar_kernel_march = None
           /\ Logged(ERROR, "cmdline")

\* C4 as stated: whenever an explicit march value was supplied, the tag run()
\* uses for the variant lookup is that value, whatever /proc/cmdline holds.
C4_ExplicitAlwaysWins ==
    (variant # "none" /\ gpar_march # None) => march = gpar_march

\* C4 as amended: a non-empty explicit value is the effective tag; a missing
\* or empty explicit value leaves the discovered tag as the effective tag; the
\* tag counts as present for the variant lookup only when one of the two is a
\* non-empty string, and the lookup uses the effective tag.
C4_NonEmptyExplicitWins ==
    RunEntered =>
        /\ Truthy(gpar_march) => march = gpar_march
        /\ ~Truthy(gpar_march) => march = gpar_kernel_march
        /\ Truthy(march) <=> (Truthy(gpar_march) \/ Truthy(gpar_kernel_march))
        /\ variant # "none" =>
              /\ Truthy(march)
              /\ Truthy(gpar_march) =>
                    marchprog = Join(Join(Split(Split(prog)[1])[1],
                                          Split(Split(prog)[1])[2] \o <<"-">> \o gpar_march),
                                     Split(prog)[2])

C4_Witness ==
    /\ variant = "found"
    /\ gpar_march = V3
    /\ gpar_kernel_march = V2
    /\ march = V3

\* C5: when resolution fails entirely, the failure is logged, os.execv is
\* still called, once, with the original token as target and the original
\* vector, no variant rewrite happens even with a march tag, and a failed
\* exec makes run() return 127.
C5_VerbatimExecOnResolutionFailure ==
    (prog = None /\ (pc = "exec" \/ ExecCalled)) =>
        /\ Logged(ERROR, "cannot determine")
        /\ args = argv0
        /\ variant = "none"
        /\ marchprog = None
        /\ ExecCalled =>
              /\ Len(execs) = 1
              /\ execs[1] = <<argv0[1], argv0>>
              /\ pc \in {"replaced", "returned"}
        /\ (ExecCalled /\ pc = "returned") =>
              /\ ret = ExecFailed
              /\ Logged(ERROR, "execv")

C5_Witness ==
    /\ prog = None
    /\ pc = "returned"
    /\ ExecCalled
    /\ Truthy(march)
    /\ ret = ExecFailed

\* C6: once run() was entered with the positionals of getopt, no exception
\* leaves the launcher: the process is replaced, or 127 or 3 is returned.
C6_NothingRaisesPastLauncher ==
    RunEntered =>
        /\ exc = ""
        /\ pc # "uncaught"
        /\ pc = "returned" => ret \in {ExecFailed, SigQuit}

\* C7: os.execv is called at most once per run() and never retried: after the
\* call the process is replaced or run() has returned 127 with the error
\* logged, and a failed exec of the variant is not followed by an exec of the
\* original resolved path.
C7_ExecAtMostOnce ==
    /\ Len(execs) <= 1
    /\ ExecCalled =>
          /\ pc \in {"replaced", "returned"}
          /\ pc = "returned" => (ret = ExecFailed /\ Logged(ERROR, "execv"))
          /\ variant = "found" => execs[1][1] = marchprog

C7_Witness ==
    /\ pc = "returned"
    /\ ExecCalled
    /\ variant = "found"
    /\ fsChanges > 0
    /\ ~Loadable(fs, marchprog)
    /\ Loadable(fs, prog)

\* C8 as stated: for a token with a directory separator, a successful
\* resolution (direct check, then which()) gives the token's absolute form.
C8_PathTokenResolvesAbsolute ==
    (RunEntered /\ pc \in {"variant", "exec", "replaced"} /\ HasSep(argv0[1])
        /\ prog # None)
        => prog = AbsPath(argv0[1])

\* C8 as amended: for a token with a directory separator, resolution never
\* consults PATH: the direct check of run() gives the absolute form of the
\* token when the token is executable, and which() gives the token itself,
\* unchanged, when it exists and is executable and not-found otherwise, the
\* same for every PATH.
C8_PathTokenIgnoresPATH ==
    [][ /\ (pc = "run" /\ pc' = "variant" /\ HasSep(args[1])) =>
              /\ Access(fs, args[1])
              /\ prog' = AbsPath(args[1])
        /\ (pc = "run" /\ pc' = "which" /\ HasSep(args[1])) =>
              ~Access(fs, args[1])
        /\ (pc = "which" /\ pc' = "variant" /\ HasSep(prog)) =>
              /\ prog' \in {prog, None}
              /\ prog' = prog <=> (Exists(fs, prog) /\ Access(fs, prog))
              /\ \A envpath \in PathValues : which(prog, fs, envpath) = prog'
      ]_vars

C8_Witness ==
    /\ pc = "variant"
    /\ HasSep(argv0[1])
    /\ prog = None
    /\ argv0[1] = <<".", "/", "p">>
    /\ PATH = <<"/", ":", "/", "b">>
    /\ fs[P_p] = "exec"

\* the variant path by fields: the tag is appended, after a dash, to the field
\* before the last one of the path split at its slashes
VariantByFields(p, tag) ==
    LET fields == SplitOn(p, "/")
        n      == Len(fields)
    IN  IF n = 1 THEN <<"-">> \o tag \o <<"/">> \o p
        ELSE IF n = 2 /\ fields[1] = <<>>
             THEN <<"/", "-">> \o tag \o <<"/">> \o fields[2]
        ELSE JoinWith(SubSeq(fields, 1, n - 2)
                        \o <<fields[n - 1] \o <<"-">> \o tag, fields[n]>>, "/")

\* C9: the variant path is a function of the resolved path and the tag alone:
\* grandparent / (final segment + "-" + tag) / filename, whatever the
\* filesystem holds, without normalising (/b/p with v3 gives /b-v3/p).
C9_VariantPathDerivation ==
    marchprog # None =>
        /\ marchprog = VariantByFields(prog, march)
        /\ (prog = P_b_p /\ march = V3) => marchprog = P_b_v3_p
        /\ Split(marchprog)[2] = Split(prog)[2]
        /\ Len(marchprog) = Len(prog) + 1 + Len(march)
                              + (IF Split(prog)[1] \in {<<>>, <<"/">>} THEN 1 ELSE 0)

C9_Witness ==
    /\ marchprog = P_b_v3_p
    /\ prog = P_b_p
    /\ variant = "missing"
    /\ fs[P_b_v3_p] = "absent"

\* C10: the discovered tag is the text after "march=" in the first token of
\* /proc/cmdline that begins with "march="; later march= tokens are not
\* consulted; with no such token the discovered tag is absent
\* ("... march=v2 ..." without an explicit tag gives the effective tag v2).
C10_FirstMarchTokenWins ==
    cmdline # Unbound =>
        /\ \/ /\ \A i \in 1..Len(cmdline) : ~StartsWith(cmdline[i], MarchEq)
              /\ gpar_kernel_march = None
           \/ \E i \in 1..Len(cmdline) :
                 /\ cmdline[i] = MarchEq \o gpar_kernel_march
                 /\ \A j \in 1..(i - 1) : ~StartsWith(cmdline[j], MarchEq)
        /\ (RunEntered /\ gpar_march = None
              /\ \E i \in 1..Len(cmdline) :
                    /\ cmdline[i] = MarchEq \o V2
                    /\ \A j \in 1..(i - 1) : ~StartsWith(cmdline[j], MarchEq))
              => march = V2

C10_Witness ==
    /\ RunEntered
    /\ gpar_march = None
    /\ march = V2
    /\ \E i, j \in 1..Len(cmdline) :
          /\ i < j
          /\ cmdline[i] = MarchEq \o V2
          /\ cmdline[j] = MarchEq \o V3

====
